---- MODULE Spec2Model ----
(***************************************************************************)
(* The lexical annotation pipeline of generate_index.py: the cache         *)
(* (get_cache_key, get_from_cache, save_to_cache), the difficulty selector *)
(* with its retry loop (translate_paragraph_with_mistral), the span mapper *)
(* (wrap_words_in_spans) and the identifier allocation and merge           *)
(* (translate_words_with_mistral, generate_episode_html, generate_html).   *)
(*                                                                         *)
(* A Python string is a sequence of one-character strings.  Generated      *)
(* markup is a sequence of tokens: a character of the text, the opening    *)
(* tag <span class='word' data-word-id='ID'> or the closing tag </span>.   *)
(***************************************************************************)
EXTENDS Integers, Sequences, FiniteSets, TLC

\* ------------------------------------------------------------------------
\* Bounds of the model
\* ------------------------------------------------------------------------
MaxTextLen == 5
MaxCands == 3
MaxKeyTextLen == 2
MaxContextLen == 2
MaxPieces == 3

\* ------------------------------------------------------------------------
\* Characters and strings
\* ------------------------------------------------------------------------
\* The characters that are not matched by \w in the texts of the model.
NonWordChars == {" ", ",", "<", ">", "/"}

IsWordChar(c) == c \notin NonWordChars

Min(a, b) == IF a < b THEN a ELSE b

\* Python's text[a:b] (0-based, b exclusive).
Slice(text, a, b) == SubSeq(text, a + 1, b)

\* ------------------------------------------------------------------------
\* Markup tokens
\* ------------------------------------------------------------------------
\* The value of a data-word-id attribute: str(i) as wrap_words_in_spans
\* writes it (raw), or "l<episode_id>_w<n>" as translate_words_with_mistral
\* rewrites it.  The two forms are different strings for every i, n.
RawId(i) == [raw |-> TRUE, ep |-> "", n |-> i]
NewId(episode_id, n) == [raw |-> FALSE, ep |-> episode_id, n |-> n]
NoId == [raw |-> TRUE, ep |-> "", n |-> -1]

Ch(c) == [t |-> "ch", c |-> c, id |-> NoId]
SpanOpen(id) == [t |-> "open", c |-> "", id |-> id]
SpanClose == [t |-> "close", c |-> "", id |-> NoId]

Plain(s) == [i \in 1..Len(s) |-> Ch(s[i])]

\* ------------------------------------------------------------------------
\* Candidates (the elements of a "translations" list)
\* ------------------------------------------------------------------------
\* An element of the list is a JSON object with the keys in has.  A key
\* that is absent has an empty value here, which is never read.
Fields == {"word", "grammar", "translation"}

Cand(w, g, t) == [has |-> Fields, word |-> w, grammar |-> g, translation |-> t]

\* t["word"] raises KeyError
NoWord(t) == "word" \notin t.has

\* ------------------------------------------------------------------------
\* wrap_words_in_spans
\* ------------------------------------------------------------------------
RECURSIVE WordEnd(_, _)
\* The end of the maximal run of \w characters that starts at position i.
WordEnd(text, i) ==
    IF i < Len(text) /\ IsWordChar(text[i + 1]) THEN WordEnd(text, i + 1) ELSE i

RECURSIVE finditer(_, _)
\* re.finditer(r'\b(\w+)\b', text): the matches from position i (1-based)
\* on, each with match.start() and match.end() as Python counts them.
finditer(text, i) ==
    IF i > Len(text) THEN <<>>
    ELSE IF IsWordChar(text[i])
         THEN LET e == WordEnd(text, i)
              IN  <<[start |-> i - 1, end |-> e]>> \o finditer(text, e + 1)
         ELSE finditer(text, i + 1)

RECURSIVE IndicesOf(_, _, _)
\* The indices (0-based, as enumerate gives them) of the elements of
\* translations[i..] whose word is w, in list order.
IndicesOf(translations, w, i) ==
    IF i > Len(translations) THEN <<>>
    ELSE IF translations[i].word = w
         THEN <<i - 1>> \o IndicesOf(translations, w, i + 1)
         ELSE IndicesOf(translations, w, i + 1)

words_to_wrap(translations) ==
    [w \in {translations[i].word : i \in 1..Len(translations)} |->
        IndicesOf(translations, w, 1)]

\* Mutant: the text between two matches is not emitted.
TextBefore_Dropped(text, current_pos, start) == <<>>

\* The text emitted before a match: text[current_pos:start] when start > current_pos.
TextBefore(text, current_pos, start) ==
    IF start > current_pos THEN Plain(Slice(text, current_pos, start)) ELSE <<>>

\* The text emitted after the last match.
RemainingText(text, current_pos) ==
    IF current_pos < Len(text) THEN Plain(Slice(text, current_pos, Len(text))) ELSE <<>>

\* Mutant: the last candidate of a word is never used.
HasCandidate_OffByOne(occurrence_idx, idxs) == occurrence_idx + 1 < Len(idxs)

\* Whether the occurrence numbered occurrence_idx of a word is wrapped.
HasCandidate(occurrence_idx, idxs) == occurrence_idx < Len(idxs)

\* The translation index the occurrence is linked to.
translation_idx(occurrence_idx, idxs) == idxs[occurrence_idx + 1]

WrappedWord(word, idx) == <<SpanOpen(RawId(idx))>> \o Plain(word) \o <<SpanClose>>

RECURSIVE WrapScan(_, _, _, _, _, _, _)
\* The loop over the matches: k is the next match, counter is
\* word_occurrence_counter (0 where the code has no entry yet).
WrapScan(text, wtw, ms, k, counter, current_pos, result_parts) ==
    IF k > Len(ms) THEN [parts |-> result_parts, pos |-> current_pos]
    ELSE LET start == ms[k].start
             end == ms[k].end
             word == Slice(text, start, end)
             before == TextBefore(text, current_pos, start)
         IN  IF word \in DOMAIN wtw /\ HasCandidate(counter[word], wtw[word])
             THEN WrapScan(text, wtw, ms, k + 1,
                           [counter EXCEPT ![word] = @ + 1], end,
                           result_parts \o before
                             \o WrappedWord(word, translation_idx(counter[word], wtw[word])))
             ELSE WrapScan(text, wtw, ms, k + 1, counter, end,
                           result_parts \o before \o Plain(word))

\* Defined when no element of translations lacks its word.
wrap_words_in_spans(text, translations) ==
    LET wtw == words_to_wrap(translations)
        r == WrapScan(text, wtw, finditer(text, 1), 1,
                      [w \in DOMAIN wtw |-> 0], 0, <<>>)
    IN  r.parts \o RemainingText(text, r.pos)

\* wrap_words_in_spans raises at its first loop when an element has no word.
WrapRaises(translations) == \E i \in 1..Len(translations) : NoWord(translations[i])

\* ------------------------------------------------------------------------
\* Reading markup back
\* ------------------------------------------------------------------------
\* The markup with every span tag removed.
StripSpans(html) ==
    LET chars == SelectSeq(html, LAMBDA x : x.t = "ch")
    IN  [i \in 1..Len(chars) |-> chars[i].c]

RECURSIVE SpanEnd(_, _)
\* The position of the closing tag that follows position i.
SpanEnd(html, i) ==
    IF i > Len(html) THEN i
    ELSE IF html[i].t = "close" THEN i ELSE SpanEnd(html, i + 1)

RECURSIVE Spans(_, _)
\* The spans of the markup from position i on, in order: the identifier of
\* each, the text it encloses and where that text starts in the markup
\* without its span tags (0-based).
Spans(html, i) ==
    IF i > Len(html) THEN <<>>
    ELSE IF html[i].t = "open"
         THEN LET e == SpanEnd(html, i + 1)
              IN  <<[id |-> html[i].id,
                     start |-> Len(StripSpans(SubSeq(html, 1, i - 1))),
                     word |-> StripSpans(SubSeq(html, i + 1, e - 1))]>>
                  \o Spans(html, e + 1)
         ELSE Spans(html, i + 1)

\* ------------------------------------------------------------------------
\* The cache key
\* ------------------------------------------------------------------------
max_retries == 3

\* "Texte general en allemand"
DefaultContext ==
    <<"T", "e", "x", "t", "e", " ", "g", "e", "n", "e", "r", "a", "l", " ",
      "e", "n", " ", "a", "l", "l", "e", "m", "a", "n", "d">>

\* Mutant: the prompt does not depend on the context.
EffectiveContext_Ignored(context) == DefaultContext

\* {context if context else "Texte général en allemand"}
EffectiveContext(context) == IF context # <<>> THEN context ELSE DefaultContext

\* max(1, len(words) // 3), words being re.findall(r'\b\w+\b', paragraph_text)
num_difficult_words(paragraph_text) ==
    LET n == Len(finditer(paragraph_text, 1)) \div 3
    IN  IF n > 1 THEN n ELSE 1

\* The f-string of the prompt.  Each fixed stretch of the template is one
\* element; no text or context of the model contains such an element.
Prompt(paragraph_text, context) ==
    <<"Tu es un assistant ... Contexte global : ">>
        \o EffectiveContext(context)
        \o <<"\n\nTexte a analyser (paragraphe) :\n">>
        \o paragraph_text
        \o <<"\n\nTACHE:\nIdentifie les ", ToString(num_difficult_words(paragraph_text)),
             " mots les plus DIFFICILES ... Selectionne EXACTEMENT ",
             ToString(num_difficult_words(paragraph_text)),
             " mots les plus difficiles ...">>

\* hashlib.md5(prompt.encode('utf-8')).hexdigest().  The digest is kept
\* symbolic: the digest of a prompt is the pair of the tag "md5" and the
\* prompt, so equal prompts have equal digests and MD5 is taken to have no
\* collision among the prompts of the model.
get_cache_key(prompt) == <<"md5", prompt>>

\* A cache file: the list pickled in it, or bytes that pickle.load rejects.
Unreadable == [readable |-> FALSE, val |-> <<>>]
Pickled(result) == [readable |-> TRUE, val |-> result]

\* Mutant: the lookup never finds a file.
get_from_cache_Miss(fs, key) == <<>>

\* get_from_cache: the list, or None (<<>>) when the file is missing or
\* cannot be loaded.  fs maps the keys of the existing files to them.
get_from_cache(fs, key) ==
    IF key \in DOMAIN fs /\ fs[key].readable THEN fs[key].val ELSE <<>>

\* dict[key] = value
Put(d, key, value) ==
    [k \in DOMAIN d \cup {key} |-> IF k = key THEN value ELSE d[k]]

\* dict.update(other)
Update(d, other) ==
    [k \in DOMAIN d \cup DOMAIN other |-> IF k \in DOMAIN other THEN other[k] ELSE d[k]]

\* ------------------------------------------------------------------------
\* The split of translate_words_with_mistral
\* ------------------------------------------------------------------------
IsSpace(c) == c \in {" "}

\* re.IGNORECASE on the letters of the delimiter tags
Lower(c) ==
    CASE c = "P" -> "p"
      [] c = "B" -> "b"
      [] c = "R" -> "r"
      [] c = "S" -> "s"
      [] c = "T" -> "t"
      [] c = "O" -> "o"
      [] c = "N" -> "n"
      [] c = "G" -> "g"
      [] OTHER -> c

\* Whether the literal lit matches at position i, case-insensitively.
MatchLit(text, i, lit) ==
    /\ i + Len(lit) - 1 <= Len(text)
    /\ \A j \in 1..Len(lit) : Lower(text[i + j - 1]) = lit[j]

RECURSIVE SkipSpace(_, _)
SkipSpace(text, i) ==
    IF i <= Len(text) /\ IsSpace(text[i]) THEN SkipSpace(text, i + 1) ELSE i

\* <br\s*/?> at position i: the position after the match, or 0.
MatchBr(text, i) ==
    IF MatchLit(text, i, <<"<", "b", "r">>)
    THEN LET j == SkipSpace(text, i + 3)
             k == IF j <= Len(text) /\ text[j] = "/" THEN j + 1 ELSE j
         IN  IF k <= Len(text) /\ text[k] = ">" THEN k + 1 ELSE 0
    ELSE 0

\* (<p>|</p>|<br\s*/?>|<strong>|</strong>) at position i: the position
\* after the match, or 0 when no alternative matches there.
DelimiterEnd(text, i) ==
    IF MatchLit(text, i, <<"<", "p", ">">>) THEN i + 3
    ELSE IF MatchLit(text, i, <<"<", "/", "p", ">">>) THEN i + 4
    ELSE IF MatchBr(text, i) > 0 THEN MatchBr(text, i)
    ELSE IF MatchLit(text, i, <<"<", "s", "t", "r", "o", "n", "g", ">">>) THEN i + 8
    ELSE IF MatchLit(text, i, <<"<", "/", "s", "t", "r", "o", "n", "g", ">">>) THEN i + 9
    ELSE 0

RECURSIVE re_split_NoGroup(_, _, _)
\* Mutant: the pattern has no capturing group, the matches are not kept.
re_split_NoGroup(text, i, from) ==
    IF i > Len(text) THEN <<SubSeq(text, from, Len(text))>>
    ELSE LET e == DelimiterEnd(text, i)
         IN  IF e > 0
             THEN <<SubSeq(text, from, i - 1)>> \o re_split_NoGroup(text, e, e)
             ELSE re_split_NoGroup(text, i + 1, from)

RECURSIVE re_split(_, _, _)
\* re.split with one capturing group: the text between the matches and
\* the matches, in order.  i is the scan position, from the start of the
\* piece being collected.
re_split(text, i, from) ==
    IF i > Len(text) THEN <<SubSeq(text, from, Len(text))>>
    ELSE LET e == DelimiterEnd(text, i)
         IN  IF e > 0
             THEN <<SubSeq(text, from, i - 1), SubSeq(text, i, e - 1)>>
                      \o re_split(text, e, e)
             ELSE re_split(text, i + 1, from)

\* not part.strip() or re.match(r'^<', part)
IsTagOrEmpty(p) ==
    IF \A j \in 1..Len(p) : IsSpace(p[j]) THEN TRUE ELSE p[1] = "<"

\* ------------------------------------------------------------------------
\* The identifiers of translate_words_with_mistral
\* ------------------------------------------------------------------------
RECURSIVE index(_, _, _)
\* translations.index(translation): the first position (0-based) from i on
\* that holds an equal element.
index(translations, translation, i) ==
    IF translations[i] = translation THEN i - 1
    ELSE index(translations, translation, i + 1)

\* The identifier the loop looks for in the markup of the paragraph when
\* it handles the element at position j (1-based).
old_id(translations, j) == RawId(index(translations, translations[j], 1))

\* html_with_spans.replace("data-word-id='old'", "data-word-id='new'")
replace(html, old, new) ==
    [i \in 1..Len(html) |->
        IF html[i].t = "open" /\ html[i].id = old THEN SpanOpen(new) ELSE html[i]]

\* translation.get(key, "")
Get(translation, key, default) ==
    IF key \in translation.has THEN translation[key] ELSE default

Entry(translation) ==
    [word |-> Get(translation, "word", <<>>),
     grammar |-> Get(translation, "grammar", ""),
     translation |-> Get(translation, "translation", "")]

\* Mutant: the counter is not advanced.
NextCounter_Stuck(counter) == counter

\* word_id_counter += 1
NextCounter(counter) == counter + 1

RECURSIVE UpdateWordIds(_, _, _, _, _, _)
\* The loop "for translation in translations" from the element at
\* position j on: the markup, the word map and the counter after it.
UpdateWordIds(translations, j, episode_id, html, awt, counter) ==
    IF j > Len(translations)
    THEN [html |-> html, all_word_translations |-> awt, word_id_counter |-> counter]
    ELSE LET new_id == NewId(episode_id, counter)
         IN  UpdateWordIds(translations, j + 1, episode_id,
                           replace(html, old_id(translations, j), new_id),
                           Put(awt, new_id, Entry(translations[j])),
                           NextCounter(counter))

\* ------------------------------------------------------------------------
\* State
\* ------------------------------------------------------------------------
VARIABLES
    wtext,      \* wrap_words_in_spans: the argument text
    wcands,     \* wrap_words_in_spans: the argument translations
    wout,       \* wrap_words_in_spans: the value returned
    wpc,        \* "call" before the call, "ret" after it
    ktext,      \* get_cache_key: the paragraph of the two prompts
    kcontext,   \* get_cache_key: the contexts of the two prompts
    kkey,       \* get_cache_key: the keys of the two prompts
    kpc,        \* "call" before the keys are computed, "ret" after
    stext,      \* re.split: the argument text
    sparts,     \* re.split: the value returned
    spc,        \* "call" before the split, "ret" after it
    MISTRAL_API_KEY,        \* whether the credential is set in this run
    items,                  \* the feed items, the same in every run
    files,                  \* the files of CACHE_DIR: cache key -> content
    run,                    \* the number of the run (1 is the first)
    pc,                     \* where the run is
    number,                 \* generate_html: the number of the episode
    word_translations_dict, \* generate_html: episode number -> word map
    merged_translations,    \* generate_html: the merged word map
    returned,               \* what translate_words_with_mistral returned, per episode
    parts,                  \* translate_words_with_mistral: the split text
    idx,                    \* the position in parts of the part at hand (1-based)
    result_parts,           \* translate_words_with_mistral
    all_word_translations,  \* translate_words_with_mistral
    word_id_counter,        \* translate_words_with_mistral
    attempt,                \* translate_paragraph_with_mistral: the loop variable
    stored,                 \* history: the keys whose list was used and is still in its file
    events,                 \* history: the calls and sleeps of the last paragraph started
    calls,                  \* history: cache key -> Selector calls made with it (CallsCap: more)
    segs,                   \* history: the paragraphs handled in this run
    prev                    \* history: the previous run

wrapVars == <<wtext, wcands, wout, wpc, ktext, kcontext, kkey, kpc, stext, sparts, spc>>
inputVars == <<MISTRAL_API_KEY, items>>
htmlVars == <<number, word_translations_dict, merged_translations, returned>>
wordsVars == <<parts, idx, result_parts, all_word_translations, word_id_counter>>
histVars == <<stored, events, calls, segs, prev>>
pipeVars == <<MISTRAL_API_KEY, items, files, run, pc, number, word_translations_dict,
              merged_translations, returned, parts, idx, result_parts,
              all_word_translations, word_id_counter, attempt, stored, events,
              calls, segs, prev>>

vars == <<wrapVars, pipeVars>>

\* The pipeline at rest, for the specifications that do not run it.
PipelineIdle ==
    /\ MISTRAL_API_KEY = FALSE
    /\ items = <<>>
    /\ files = <<>>
    /\ run = 0
    /\ pc = "off"
    /\ number = 0
    /\ word_translations_dict = <<>>
    /\ merged_translations = <<>>
    /\ returned = <<>>
    /\ parts = <<>>
    /\ idx = 0
    /\ result_parts = <<>>
    /\ all_word_translations = <<>>
    /\ word_id_counter = 0
    /\ attempt = 0
    /\ stored = {}
    /\ calls = <<>>
    /\ events = <<>>
    /\ segs = <<>>
    /\ prev = <<>>

\* The span mapper at rest.
WrapOff ==
    /\ wtext = <<>>
    /\ wcands = <<>>
    /\ wout = <<>>
    /\ wpc = "off"

\* The computation of the keys at rest.
KeyOff ==
    /\ ktext = <<>>
    /\ kcontext = <<>>
    /\ kkey = <<>>
    /\ kpc = "off"

\* The split at rest.
SplitOff ==
    /\ stext = <<>>
    /\ sparts = <<>>
    /\ spc = "off"

\* ------------------------------------------------------------------------
\* The span mapper alone, over all small texts and candidate lists
\* ------------------------------------------------------------------------
RECURSIVE SeqsUpTo(_, _)
SeqsUpTo(S, n) ==
    IF n = 0 THEN {<<>>}
    ELSE LET shorter == SeqsUpTo(S, n - 1)
         IN  shorter \cup {Append(s, x) : s \in shorter, x \in S}

WrapAlphabet == {"a", "A", " "}
WrapWords == {<<"a">>, <<"A">>, <<"a", "a">>}
WrapCands == {Cand(w, "g", "t") : w \in WrapWords}

InitWrap ==
    /\ wtext \in SeqsUpTo(WrapAlphabet, MaxTextLen)
    /\ wcands \in SeqsUpTo(WrapCands, MaxCands)
    /\ wout = <<>>
    /\ wpc = "call"
    /\ KeyOff
    /\ SplitOff
    /\ PipelineIdle

CallWrap ==
    /\ wpc = "call"
    /\ wout' = wrap_words_in_spans(wtext, wcands)
    /\ wpc' = "ret"
    /\ UNCHANGED <<wtext, wcands, ktext, kcontext, kkey, kpc, stext, sparts, spc,
                   pipeVars>>

NextWrap == CallWrap

SpecWrap == InitWrap /\ [][NextWrap]_vars

\* ------------------------------------------------------------------------
\* The inputs of the pipeline
\* ------------------------------------------------------------------------
MaxRuns == 2

\* The count of the Selector calls of a key stops at CallsCap.
CallsCap == 2
MAX_EPISODES == 10

\* A feed item after fetch_manuscript: its title, the lesson number that
\* get_episode_id finds in its link ("" when it finds none) and the
\* manuscript.
Item(title, lesson, manuscript) ==
    [title |-> title, lesson |-> lesson, manuscript |-> manuscript]

\* "<p>a a</p>a a": the same paragraph twice in one episode.
Feed1 ==
    <<Item(<<"T">>, "7", <<"<", "p", ">", "a", " ", "a", "<", "/", "p", ">", "a", " ", "a">>)>>

\* "a a" and "<P>a a": the same paragraph in two episodes with two titles.
Feed2 ==
    <<Item(<<"T">>, "7", <<"a", " ", "a">>),
      Item(<<"U">>, "", <<"<", "P", ">", "a", " ", "a">>)>>

\* ",<br />a <a><p><a>a</p> " under an empty title.
Feed3 ==
    <<Item(<<>>, "", <<",", "<", "b", "r", " ", "/", ">", "a", " ", "<", "a", ">",
                       "<", "p", ">", "<", "a", ">", "a", "<", "/", "p", ">", " ">>)>>

Feeds == {Feed1, Feed2, Feed3}

\* The elements the Selector puts in its lists.
A1 == Cand(<<"a">>, "g1", "t1")
A2 == Cand(<<"a">>, "g2", "t2")
B1 == Cand(<<"b">>, "g3", "t3")
NoWordObject ==
    [has |-> {"grammar", "translation"}, word |-> <<>>,
     grammar |-> "g1", translation |-> "t1"]
NoGrammarObject ==
    [has |-> {"word", "translation"}, word |-> <<"a">>,
     grammar |-> "", translation |-> "t1"]
RespLists ==
    {<<A1>>, <<A1, A1>>, <<A1, A2>>, <<B1, A1>>,
     <<NoGrammarObject>>, <<NoWordObject>>}

\* What one call of client.chat.complete followed by json.loads gives: an
\* exception (the call fails, times out, or its content is not JSON), or
\* the parsed JSON.
Response(outcome, has_translations, is_list, translations) ==
    [outcome |-> outcome, has_translations |-> has_translations,
     is_list |-> is_list, translations |-> translations]

Responses ==
    {Response(o, FALSE, FALSE, <<>>) : o \in {"error", "timeout", "unparsable"}}
        \cup {Response("json", FALSE, FALSE, <<>>),
              Response("json", TRUE, FALSE, <<>>),
              Response("json", TRUE, TRUE, <<>>)}
        \cup {Response("json", TRUE, TRUE, l) : l \in RespLists}

\* The outcomes of the write of save_to_cache: the list is pickled, or
\* the write fails and leaves a file that cannot be loaded.
WriteOutcomes == {"written", "failed"}

\* "translations" in result and isinstance(result["translations"], list)
\*     and len(result["translations"]) > 0
Accepted(resp) ==
    /\ resp.has_translations
    /\ resp.is_list
    /\ Len(resp.translations) > 0

\* The required schema of a response: a non-empty list of objects that
\* have the three fields.
SchemaValid(resp) ==
    /\ resp.outcome = "json"
    /\ resp.has_translations
    /\ resp.is_list
    /\ Len(resp.translations) > 0
    /\ \A i \in 1..Len(resp.translations) :
          resp.translations[i].has = Fields

ClassOf(resp) ==
    IF resp.outcome # "json" THEN "failure"
    ELSE IF SchemaValid(resp) THEN "valid" ELSE "malformed"

CallEvent(resp, accepted) ==
    [e |-> "call", class |-> ClassOf(resp), secs |-> 0, accepted |-> accepted]
SleepEvent(secs) ==
    [e |-> "sleep", class |-> "", secs |-> secs, accepted |-> <<>>]

\* ------------------------------------------------------------------------
\* The pipeline
\* ------------------------------------------------------------------------
RECURSIVE Join(_)
\* ''.join(result_parts)
Join(ps) == IF ps = <<>> THEN <<>> ELSE Head(ps) \o Join(Tail(ps))

items_to_process == SubSeq(items, 1, Min(Len(items), MAX_EPISODES))

part == parts[idx]
context == items[number].title

\* get_episode_id(link) or str(number)
episode_id ==
    IF items[number].lesson # "" THEN items[number].lesson ELSE ToString(number)

cache_key == get_cache_key(Prompt(part, context))

\* Mutant: the lookup of the cache is left out.
cached_result_None == <<>>

cached_result == get_from_cache(files, cache_key)

\* Mutant: what pickle.load raises on a file it cannot load is not caught.
LookupRaises_Uncaught(fs, key) == key \in DOMAIN fs /\ ~fs[key].readable

\* Whether get_from_cache raises: its try catches every Exception of open
\* and pickle.load, and returns None.
LookupRaises(fs, key) == FALSE

\* Mutant: what the write raises is not caught.
SaveRaises_Uncaught(outcome) == outcome = "failed"

\* Whether save_to_cache raises: its try catches every Exception of open
\* and pickle.dump, and prints a warning.
SaveRaises(outcome) == FALSE

NoPrev ==
    [completed |-> FALSE, segs |-> <<>>, returned |-> <<>>, merged |-> <<>>]

Init ==
    /\ WrapOff
    /\ KeyOff
    /\ SplitOff
    /\ MISTRAL_API_KEY \in BOOLEAN
    /\ items \in Feeds
    /\ files = <<>>
    /\ run = 1
    /\ pc = "episode"
    /\ number = 1
    /\ word_translations_dict = <<>>
    /\ merged_translations = <<>>
    /\ returned = <<>>
    /\ parts = <<>>
    /\ idx = 0
    /\ result_parts = <<>>
    /\ all_word_translations = <<>>
    /\ word_id_counter = 0
    /\ attempt = 0
    /\ stored = {}
    /\ calls = <<>>
    /\ events = <<>>
    /\ segs = <<>>
    /\ prev = NoPrev

\* Mutant: the credential is never found missing.
NoCredential_Never == FALSE

\* if not MISTRAL_API_KEY
NoCredential == ~MISTRAL_API_KEY

\* translate_words_with_mistral without a credential: the text as it is
\* and an empty word map, which generate_episode_html does not store.
TranslateWithoutKey ==
    /\ pc = "episode"
    /\ number <= Len(items_to_process)
    /\ NoCredential
    /\ returned' = Append(returned,
                          [final_html |-> Plain(items[number].manuscript),
                           all_word_translations |-> <<>>])
    /\ number' = number + 1
    /\ UNCHANGED <<wrapVars, inputVars, files, run, pc, word_translations_dict,
                   merged_translations, wordsVars, attempt, histVars>>

\* translate_words_with_mistral up to its loop.
TranslateStart ==
    /\ pc = "episode"
    /\ number <= Len(items_to_process)
    /\ ~NoCredential
    /\ parts' = re_split(items[number].manuscript, 1, 1)
    /\ idx' = 1
    /\ result_parts' = <<>>
    /\ all_word_translations' = <<>>
    /\ word_id_counter' = 0
    /\ pc' = "parts"
    /\ UNCHANGED <<wrapVars, inputVars, files, run, htmlVars, attempt, histVars>>

\* The part is a tag or has no text: it is kept as it is.
KeepPart ==
    /\ pc = "parts"
    /\ idx <= Len(parts)
    /\ IsTagOrEmpty(part)
    /\ result_parts' = Append(result_parts, Plain(part))
    /\ idx' = idx + 1
    /\ UNCHANGED <<wrapVars, inputVars, files, run, pc, htmlVars, parts,
                   all_word_translations, word_id_counter, attempt, histVars>>

\* What the loop does with the value (html_with_spans, translations) of
\* translate_paragraph_with_mistral; src and obtained are for the history.
FinishParagraph(html_with_spans, translations, src, obtained, evs) ==
    LET r == IF translations # <<>>
             THEN UpdateWordIds(translations, 1, episode_id, html_with_spans,
                                all_word_translations, word_id_counter)
             ELSE [html |-> html_with_spans,
                   all_word_translations |-> all_word_translations,
                   word_id_counter |-> word_id_counter]
    IN  /\ result_parts' = Append(result_parts, r.html)
        /\ all_word_translations' = r.all_word_translations
        /\ word_id_counter' = r.word_id_counter
        /\ idx' = idx + 1
        /\ pc' = "parts"
        /\ events' = evs
        /\ segs' = Append(segs, [episode |-> number, text |-> part, src |-> src,
                                 obtained |-> obtained,
                                 translations |-> translations, html |-> r.html])

\* A paragraph without a word: translate_paragraph_with_mistral returns it
\* with an empty list before it builds the prompt.
ParagraphWithoutWords ==
    /\ pc = "parts"
    /\ idx <= Len(parts)
    /\ ~IsTagOrEmpty(part)
    /\ finditer(part, 1) = <<>>
    /\ FinishParagraph(Plain(part), <<>>, "nowords", <<>>, <<>>)
    /\ UNCHANGED <<wrapVars, inputVars, files, run, htmlVars, parts, attempt,
                   stored, calls, prev>>

\* The cache has a list for the prompt: it is wrapped outside any try, so
\* what wrap_words_in_spans raises ends the run.
CacheHit ==
    /\ pc = "parts"
    /\ idx <= Len(parts)
    /\ ~IsTagOrEmpty(part)
    /\ finditer(part, 1) # <<>>
    /\ cached_result # <<>>
    /\ IF WrapRaises(cached_result)
       THEN /\ pc' = "crashed"
            /\ segs' = Append(segs, [episode |-> number, text |-> part, src |-> "raise",
                                     obtained |-> cached_result,
                                     translations |-> <<>>, html |-> <<>>])
            /\ events' = <<>>
            /\ UNCHANGED wordsVars
       ELSE /\ FinishParagraph(wrap_words_in_spans(part, cached_result),
                               cached_result, "hit", cached_result, <<>>)
            /\ UNCHANGED parts
    /\ UNCHANGED <<wrapVars, inputVars, files, run, htmlVars, attempt, stored,
                   calls, prev>>

\* The cache has nothing readable for the prompt: the retry loop starts.
CacheMiss ==
    /\ pc = "parts"
    /\ idx <= Len(parts)
    /\ ~IsTagOrEmpty(part)
    /\ finditer(part, 1) # <<>>
    /\ cached_result = <<>>
    /\ pc' = IF LookupRaises(files, cache_key) THEN "crashed" ELSE "attempt"
    /\ attempt' = 0
    /\ events' = <<>>
    /\ UNCHANGED <<wrapVars, inputVars, files, run, htmlVars, wordsVars, stored,
                   calls, segs, prev>>

\* Mutant: the loop sleeps after its last pass too.
ShouldSleep_Always(a) == TRUE

\* if attempt < max_retries - 1: time.sleep(2)
ShouldSleep(a) == a < max_retries - 1

\* for attempt in range(max_retries)
InRange(a) == a < max_retries

\* The list that the paragraph at hand last accepted from the Selector.
LastAccepted(evs) ==
    LET got == SelectSeq(evs, LAMBDA x : x.accepted # <<>>)
    IN  IF got = <<>> THEN <<>> ELSE got[Len(got)].accepted

\* The loop is left without a list: return paragraph_text, [].
Degrade(evs) ==
    /\ FinishParagraph(Plain(part), <<>>, "degrade", LastAccepted(evs), evs)
    /\ UNCHANGED <<parts, attempt>>

\* save_to_cache(cache_key, result)
save_to_cache(key, result, outcome) ==
    IF outcome = "written"
    THEN files' = Put(files, key, Pickled(result))
    ELSE files' = Put(files, key, Unreadable)

\* One pass of the retry loop: the call, the check of the response, the
\* write to the cache and the wrapping.
Attempt(resp, outcome) ==
    /\ pc = "attempt"
    /\ calls' = Put(calls, cache_key,
                    IF cache_key \in DOMAIN calls
                    THEN Min(calls[cache_key] + 1, CallsCap) ELSE 1)
    /\ LET accepted == resp.outcome = "json" /\ Accepted(resp)
           evs == Append(events,
                         CallEvent(resp, IF accepted THEN resp.translations ELSE <<>>))
       IN  /\ IF accepted
              THEN save_to_cache(cache_key, resp.translations, outcome)
              ELSE outcome = "written" /\ files' = files
           /\ IF accepted /\ ~SaveRaises(outcome) /\ ~WrapRaises(resp.translations)
              THEN \* return html_with_spans, result["translations"]
                   /\ FinishParagraph(wrap_words_in_spans(part, resp.translations),
                                      resp.translations, "live", resp.translations, evs)
                   /\ stored' = IF outcome = "written"
                                THEN stored \cup {cache_key} ELSE stored
                   /\ UNCHANGED <<parts, attempt>>
              ELSE IF resp.outcome = "json" /\ ~accepted
              THEN \* the else branch: sleep unless last, then continue
                   /\ stored' = stored
                   /\ IF ShouldSleep(attempt)
                      THEN /\ pc' = "sleep"
                           /\ events' = evs
                           /\ UNCHANGED <<wordsVars, attempt, segs>>
                      ELSE IF InRange(attempt + 1)
                      THEN /\ attempt' = attempt + 1
                           /\ events' = evs
                           /\ UNCHANGED <<pc, wordsVars, segs>>
                      ELSE Degrade(evs)
              ELSE \* except Exception: sleep and continue, or return
                   /\ stored' = stored
                   /\ IF ShouldSleep(attempt)
                      THEN /\ pc' = "sleep"
                           /\ events' = evs
                           /\ UNCHANGED <<wordsVars, attempt, segs>>
                      ELSE Degrade(evs)
    /\ UNCHANGED <<wrapVars, inputVars, run, htmlVars, prev>>

\* time.sleep(2), then continue
Sleep ==
    /\ pc = "sleep"
    /\ IF InRange(attempt + 1)
       THEN /\ attempt' = attempt + 1
            /\ pc' = "attempt"
            /\ events' = Append(events, SleepEvent(2))
            /\ UNCHANGED <<wordsVars, segs>>
       ELSE Degrade(Append(events, SleepEvent(2)))
    /\ UNCHANGED <<wrapVars, inputVars, files, run, htmlVars, stored, calls, prev>>

\* The end of translate_words_with_mistral and what generate_episode_html
\* does with its value: a word map that is not empty is stored under
\* "episode_<number>".
TranslateEnd ==
    /\ pc = "parts"
    /\ idx > Len(parts)
    /\ returned' = Append(returned,
                          [final_html |-> Join(result_parts),
                           all_word_translations |-> all_word_translations])
    /\ word_translations_dict' =
          IF all_word_translations # <<>>
          THEN Put(word_translations_dict, number, all_word_translations)
          ELSE word_translations_dict
    /\ number' = number + 1
    /\ pc' = "episode"
    /\ UNCHANGED <<wrapVars, inputVars, files, run, merged_translations,
                   wordsVars, attempt, histVars>>

RECURSIVE MergeFrom(_, _, _)
\* merged_translations.update(translations) for the episodes from n on, in
\* the order in which generate_html stored them.
MergeFrom(d, n, merged) ==
    IF n > Len(items_to_process) THEN merged
    ELSE MergeFrom(d, n + 1, IF n \in DOMAIN d THEN Update(merged, d[n]) ELSE merged)

\* generate_html after its loop.
Merge ==
    /\ pc = "episode"
    /\ number > Len(items_to_process)
    /\ merged_translations' = MergeFrom(word_translations_dict, 1, <<>>)
    /\ pc' = "done"
    /\ UNCHANGED <<wrapVars, inputVars, files, run, number, word_translations_dict,
                   returned, wordsVars, attempt, histVars>>

\* Between two runs a cache file is damaged.
DamageFile(key) ==
    /\ pc \in {"done", "crashed"}
    /\ run < MaxRuns
    /\ key \in DOMAIN files
    /\ files[key].readable
    /\ files' = Put(files, key, Unreadable)
    /\ stored' = stored \ {key}
    /\ UNCHANGED <<wrapVars, inputVars, run, pc, htmlVars, wordsVars, attempt,
                   events, calls, segs, prev>>

\* The script is started again on the same feed and the same CACHE_DIR;
\* key tells whether the credential is set, past is what the history
\* keeps of the run that ended.
StartRun(key, past) ==
    /\ pc \in {"done", "crashed"}
    /\ run < MaxRuns
    /\ prev' = past
    /\ MISTRAL_API_KEY' = key
    /\ run' = run + 1
    /\ pc' = "episode"
    /\ number' = 1
    /\ word_translations_dict' = <<>>
    /\ merged_translations' = <<>>
    /\ returned' = <<>>
    /\ parts' = <<>>
    /\ idx' = 0
    /\ result_parts' = <<>>
    /\ all_word_translations' = <<>>
    /\ word_id_counter' = 0
    /\ attempt' = 0
    /\ events' = <<>>
    /\ segs' = <<>>
    /\ UNCHANGED <<wrapVars, items, files, stored, calls>>

NextRun(key) == StartRun(key, prev)

Run ==
    \/ TranslateWithoutKey
    \/ TranslateStart
    \/ KeepPart
    \/ ParagraphWithoutWords
    \/ CacheHit
    \/ CacheMiss
    \/ \E resp \in Responses, outcome \in WriteOutcomes : Attempt(resp, outcome)
    \/ Sleep
    \/ TranslateEnd
    \/ Merge

Next ==
    \/ Run
    \/ \E key \in DOMAIN files : DamageFile(key)
    \/ \E key \in BOOLEAN : NextRun(key)

Spec == Init /\ [][Next]_vars

\* ------------------------------------------------------------------------
\* Replay: the script is run again, the credential unchanged, on the cache
\* that the run before left, and the history keeps the run before.
\* ------------------------------------------------------------------------
\* The feeds of a single episode.
ReplayFeeds == {Feed1, Feed3}

InitReplay == Init /\ items \in ReplayFeeds

Replay ==
    StartRun(MISTRAL_API_KEY,
             [completed |-> pc = "done", segs |-> segs, returned |-> returned,
              merged |-> merged_translations])

NextReplay == Run \/ Replay

SpecReplay == InitReplay /\ [][NextReplay]_vars

\* ------------------------------------------------------------------------
\* The cache key alone, over small paragraphs and pairs of contexts
\* ------------------------------------------------------------------------
KeyTexts == SeqsUpTo({"a", " "}, MaxKeyTextLen)
KeyContexts == SeqsUpTo({"T", "e"}, MaxContextLen) \cup {DefaultContext}

InitKey ==
    /\ WrapOff
    /\ ktext \in KeyTexts
    /\ kcontext \in KeyContexts \X KeyContexts
    /\ kkey = <<>>
    /\ kpc = "call"
    /\ SplitOff
    /\ PipelineIdle

\* cache_key = get_cache_key(prompt), for the paragraph under each context.
ComputeKeys ==
    /\ kpc = "call"
    /\ kkey' = <<get_cache_key(Prompt(ktext, kcontext[1])),
                 get_cache_key(Prompt(ktext, kcontext[2]))>>
    /\ kpc' = "ret"
    /\ UNCHANGED <<wtext, wcands, wout, wpc, ktext, kcontext, stext, sparts, spc,
                   pipeVars>>

NextKey == ComputeKeys

SpecKey == InitKey /\ [][NextKey]_vars

\* ------------------------------------------------------------------------
\* The split alone, over the texts made of a few pieces of markup
\* ------------------------------------------------------------------------
SplitPieces ==
    {<<"<", "p", ">">>, <<"<", "/", "p", ">">>, <<"<", "b", "r", " ", "/", ">">>,
     <<"<", "B", "R", ">">>, <<"<", "S", "t", "r", "o", "n", "g", ">">>,
     <<"<", "/", "s", "t", "r", "o", "n", "g", ">">>, <<"<", "a", ">">>,
     <<"a">>, <<" ">>, <<"<">>, <<">">>, <<"p">>}

InitSplit ==
    /\ WrapOff
    /\ KeyOff
    /\ stext \in {Join(ps) : ps \in SeqsUpTo(SplitPieces, MaxPieces)}
    /\ sparts = <<>>
    /\ spc = "call"
    /\ PipelineIdle

\* parts = re.split(r'(<p>|</p>|<br\s*/?>|<strong>|</strong>)', text, flags=re.IGNORECASE)
CallSplit ==
    /\ spc = "call"
    /\ sparts' = re_split(stext, 1, 1)
    /\ spc' = "ret"
    /\ UNCHANGED <<wtext, wcands, wout, wpc, ktext, kcontext, kkey, kpc, stext,
                   pipeVars>>

NextSplit == CallSplit

SpecSplit == InitSplit /\ [][NextSplit]_vars

\* ------------------------------------------------------------------------
\* Properties of the split
\* ------------------------------------------------------------------------
\* C14: the parts that re.split gives for a text, concatenated in order,
\* are the text, whatever the text; every match of the pattern is a part
\* of its own and no other part holds a match.
C14_SplitRoundTrip ==
    spc = "ret" =>
        /\ sparts # <<>>
        /\ Join(sparts) = stext
        /\ Len(sparts) % 2 = 1
        /\ \A k \in 1..Len(sparts) :
              IF k % 2 = 0
              THEN DelimiterEnd(sparts[k], 1) = Len(sparts[k]) + 1
              ELSE \A i \in 1..Len(sparts[k]) : DelimiterEnd(sparts[k], i) = 0

\* Malformed markup: an unclosed "<" and a tag that is no delimiter around
\* a delimiter written in capitals.
C14_Witness ==
    /\ spc = "ret"
    /\ stext = <<"<", "<", "B", "R", ">", "<", "a", ">">>
    /\ sparts = <<<<"<">>, <<"<", "B", "R", ">">>, <<"<", "a", ">">>>>

\* ------------------------------------------------------------------------
\* Properties of the span mapper
\* ------------------------------------------------------------------------
\* The number of positions of the sequence s whose element satisfies P.
Count(s, P(_)) == Cardinality({i \in 1..Len(s) : P(s[i])})

\* The word tokens of a text, left to right.
TokenWords(text) ==
    LET ms == finditer(text, 1)
    IN  [k \in 1..Len(ms) |-> Slice(text, ms[k].start, ms[k].end)]

\* Every surface form that occurs in the text or in the candidate list.
SurfaceForms(text, translations) ==
    {TokenWords(text)[k] : k \in 1..Len(TokenWords(text))}
        \cup {translations[i].word : i \in 1..Len(translations)}

\* C2: removing every span tag from the output of wrap_words_in_spans gives
\* back the input text exactly.
C2_NonDestructive ==
    wpc = "ret" => StripSpans(wout) = wtext

\* A wrapped word between two unwrapped stretches of text.
C2_Witness ==
    /\ wpc = "ret"
    /\ Len(Spans(wout, 1)) >= 1
    /\ wout[1].t = "ch"
    /\ wout[Len(wout)].t = "ch"
    /\ \E i \in 1..Len(wtext) : ~IsWordChar(wtext[i])

\* C3: for every surface form w, the number of spans that enclose w equals
\* the smaller of the number of word tokens of the text that are w and the
\* number of candidates whose word is w.
C3_OccurrenceBound ==
    wpc = "ret" =>
        \A w \in SurfaceForms(wtext, wcands) :
            Count(Spans(wout, 1), LAMBDA s : s.word = w)
                = Min(Count(TokenWords(wtext), LAMBDA x : x = w),
                      Count(wcands, LAMBDA t : t.word = w))

\* A word with more occurrences than candidates, beside a word that differs
\* from it in case only and has more candidates than occurrences.
C3_Witness ==
    /\ wpc = "ret"
    /\ Count(TokenWords(wtext), LAMBDA x : x = <<"a">>) = 2
    /\ Count(wcands, LAMBDA t : t.word = <<"a">>) = 1
    /\ Count(TokenWords(wtext), LAMBDA x : x = <<"A">>) = 1
    /\ Count(wcands, LAMBDA t : t.word = <<"A">>) = 2
    /\ Len(Spans(wout, 1)) = 2

\* ------------------------------------------------------------------------
\* Properties of the cache key
\* ------------------------------------------------------------------------
\* C8 as it is stated: the same paragraph under two different contexts has
\* two different keys, an empty context against any other included.
C8_ContextChangesKey ==
    kpc = "ret" =>
        /\ (kcontext[1] = kcontext[2] => kkey[1] = kkey[2])
        /\ (kcontext[1] # kcontext[2] => kkey[1] # kkey[2])

\* C8 amended: the same paragraph under two contexts has the same key when
\* the contexts are equal or when one is empty and the other is the default
\* hint that replaces an empty context, and two different keys otherwise.
C8_EffectiveContextChangesKey ==
    kpc = "ret" =>
        /\ (kcontext[1] = kcontext[2] => kkey[1] = kkey[2])
        /\ ({kcontext[1], kcontext[2]} = {<<>>, DefaultContext} => kkey[1] = kkey[2])
        /\ (/\ kcontext[1] # kcontext[2]
            /\ {kcontext[1], kcontext[2]} # {<<>>, DefaultContext}
            => kkey[1] # kkey[2])

\* An empty context against a title, with two different keys.
C8_Witness ==
    /\ kpc = "ret"
    /\ kcontext[1] = <<>>
    /\ kcontext[2] = <<"T">>
    /\ ktext = <<"a", " ">>
    /\ kkey[1] # kkey[2]

\* ------------------------------------------------------------------------
\* Properties of the pipeline
\* ------------------------------------------------------------------------
\* The k-th element (k from 1) of the sequence s that satisfies P, as a
\* sequence of one element, or <<>> when there is none.
Kth(s, P(_), k) ==
    LET sel == SelectSeq(s, P)
    IN  IF k <= Len(sel) THEN <<sel[k]>> ELSE <<>>

\* The spans of the whole document of this run, episode after episode.
RECURSIVE DocumentSpans(_)
DocumentSpans(e) ==
    IF e > Len(returned) THEN <<>>
    ELSE Spans(returned[e].final_html, 1) \o DocumentSpans(e + 1)

\* C1: no failure ends the generation: whatever the Selector answers and
\* whatever the cache holds, translate_words_with_mistral returns, and what
\* it returns is the whole transcript with its word map.
C1_NoFailurePropagates ==
    /\ pc # "crashed"
    /\ \A e \in 1..Len(returned) :
          StripSpans(returned[e].final_html) = items[e].manuscript

\* C4: in every paragraph of a finished episode, the k-th occurrence of a
\* word is wrapped exactly when the list has a k-th candidate with that
\* word, and the identifier of the span resolves in the word map of the
\* episode to the word, grammar and translation of that candidate.
C4_KthOccurrenceKthCandidate ==
    \A j \in 1..Len(segs) :
        (segs[j].episode <= Len(returned) /\ segs[j].src \in {"hit", "live"}) =>
            LET sg == segs[j]
                map == returned[sg.episode].all_word_translations
                ms == finditer(sg.text, 1)
                sp == Spans(sg.html, 1)
            IN  \A w \in SurfaceForms(sg.text, sg.translations) :
                \A k \in 1..Len(ms) :
                    LET occ == Kth(ms, LAMBDA m : Slice(sg.text, m.start, m.end) = w, k)
                        cand == Kth(sg.translations, LAMBDA t : t.word = w, k)
                        at == IF occ = <<>> THEN <<>>
                              ELSE SelectSeq(sp, LAMBDA x : x.start = occ[1].start)
                    IN  occ # <<>> =>
                            /\ (at # <<>>) <=> (cand # <<>>)
                            /\ at # <<>> =>
                                  /\ Len(at) = 1
                                  /\ at[1].word = w
                                  /\ at[1].id \in DOMAIN map
                                  /\ map[at[1].id] = Entry(cand[1])

\* C5: every span of the markup that translate_words_with_mistral returns
\* has an identifier that is a key of the word map returned with it, and
\* the word of that entry is the text of the span.
C5_SpanIdsInWordMap ==
    \A e \in 1..Len(returned) :
        LET sp == Spans(returned[e].final_html, 1)
            map == returned[e].all_word_translations
        IN  \A i \in 1..Len(sp) :
                /\ sp[i].id \in DOMAIN map
                /\ map[sp[i].id].word = sp[i].word

\* C6: no two spans of the document have the same identifier, and no two
\* episodes have a word map entry under the same identifier.
C6_IdentifiersUnique ==
    /\ LET sp == DocumentSpans(1)
       IN  \A i, j \in 1..Len(sp) : i # j => sp[i].id # sp[j].id
    /\ \A e1, e2 \in 1..Len(returned) :
          e1 # e2 =>
              DOMAIN returned[e1].all_word_translations
                  \cap DOMAIN returned[e2].all_word_translations = {}

\* C7 as it is stated: the Selector is called at most once with any key,
\* over all the paragraphs of a run and over the runs.
C7_AtMostOneCallPerKey ==
    \A key \in DOMAIN calls : calls[key] <= 1

\* C7 amended: the Selector is not called with a key while the cache holds
\* the list that a paragraph was annotated with under that key: a call is
\* made or pending only for a key that is not stored.
C7_NoCallWhileStored ==
    /\ pc \in {"attempt", "sleep"} => cache_key \notin stored
    /\ \A key \in stored : key \in DOMAIN files /\ files[key].readable

\* A second run in which a paragraph is served from the list that the
\* first run stored, after a first run that called the Selector once.
C7_Witness ==
    /\ run = 2
    /\ pc = "done"
    /\ \E j \in 1..Len(segs) :
          /\ segs[j].src = "hit"
          /\ get_cache_key(Prompt(segs[j].text, items[segs[j].episode].title)) \in stored
    /\ \A key \in DOMAIN calls : calls[key] = 1

IsCall(ev) == ev.e = "call"

\* C10: for one paragraph the Selector is called at most 3 times; a call
\* after the first follows a sleep of 2 seconds that follows a call which
\* failed or was malformed; nothing follows a valid response; a sleep
\* follows a call, and no sleep is made or pending after the third call or
\* once the paragraph is done.
C10_BoundedRetry ==
    /\ Count(events, IsCall) <= 3
    /\ \A i \in 1..Len(events) :
          /\ (IsCall(events[i]) /\ i > 1) =>
                /\ i > 2
                /\ events[i - 1].e = "sleep"
                /\ events[i - 1].secs = 2
                /\ IsCall(events[i - 2])
                /\ events[i - 2].class \in {"failure", "malformed"}
          /\ events[i].class = "valid" => i = Len(events)
          /\ events[i].e = "sleep" => (i > 1 /\ IsCall(events[i - 1]))
    /\ Count(events, IsCall) = 3 =>
          (pc # "sleep" /\ events[Len(events)].e = "call")
    /\ (pc \notin {"attempt", "sleep"} /\ events # <<>>) =>
          events[Len(events)].e = "call"
    /\ pc = "attempt" => (attempt = 0 \/ events[Len(events)].e = "sleep")

\* A paragraph that degraded after three calls and two sleeps.
C10_Witness ==
    /\ pc = "parts"
    /\ Len(events) = 5
    /\ Count(events, IsCall) = 3
    /\ events[1].class = "failure"
    /\ events[3].class = "malformed"
    /\ segs # <<>>
    /\ segs[Len(segs)].src = "degrade"

\* ------------------------------------------------------------------------
\* Properties of the replay
\* ------------------------------------------------------------------------
\* This run has so far read from the cache, paragraph after paragraph, the
\* lists that the run before obtained (from the Selector or from the cache).
ReplaysPrevious ==
    /\ run >= 2
    /\ prev.completed
    /\ \A j \in 1..Len(segs) :
          /\ j <= Len(prev.segs)
          /\ segs[j].src \in {"hit", "raise", "nowords"}
          /\ segs[j].obtained = prev.segs[j].obtained

\* C9: a run that reads from the cache the lists that the run before
\* obtained ends as that run did, with the same markup and the same
\* identifiers and word maps.
C9_IdempotentReplay ==
    ReplaysPrevious =>
        /\ pc # "crashed"
        /\ pc = "done" =>
              /\ returned = prev.returned
              /\ merged_translations = prev.merged

\* ------------------------------------------------------------------------
\* Properties of the degraded paths
\* ------------------------------------------------------------------------
\* A list in which every element has the three fields.
ListValid(l) == \A i \in 1..Len(l) : l[i].has = Fields

\* The calls of a paragraph are used up, and each ended in a failure of the
\* call or in a response that is not of the required schema.
Exhausted(evs) ==
    /\ Count(evs, IsCall) = max_retries
    /\ \A i \in 1..Len(evs) :
          IsCall(evs[i]) => evs[i].class \in {"failure", "malformed"}

\* C11: once the three calls of a paragraph have each ended in a failure
\* or in a malformed response, the paragraph is returned as it was with an
\* empty list, it has no span and gives the word map nothing, and the run
\* goes on with the next part.
C11_DegradeAfterExhaustion ==
    (pc \notin {"attempt", "sleep"} /\ Exhausted(events)) =>
        /\ pc \in {"parts", "episode", "done"}
        /\ segs # <<>>
        /\ LET sg == segs[Len(segs)]
           IN  /\ sg.src = "degrade"
               /\ sg.translations = <<>>
               /\ sg.html = Plain(sg.text)

\* C12: in a run without the credential no paragraph is handled and no
\* call is made or pending, whatever the cache holds; every transcript is
\* returned as it was, without a span, with an empty word map, and the
\* merged word map is empty.
C12_DegradeOnDisable ==
    ~MISTRAL_API_KEY =>
        /\ pc \in {"episode", "done"}
        /\ events = <<>>
        /\ segs = <<>>
        /\ \A e \in 1..Len(returned) :
              /\ returned[e].final_html = Plain(items[e].manuscript)
              /\ Spans(returned[e].final_html, 1) = <<>>
              /\ returned[e].all_word_translations = <<>>
        /\ word_translations_dict = <<>>
        /\ merged_translations = <<>>

\* A second run, without the credential, that ends on a cache in which the
\* first run left a list for a paragraph of the feed.
C12_Witness ==
    /\ ~MISTRAL_API_KEY
    /\ run = 2
    /\ pc = "done"
    /\ Len(returned) = 2
    /\ get_from_cache(files, get_cache_key(Prompt(items[1].manuscript, items[1].title))) # <<>>

\* C13: a response is accepted only if it is a non-empty list of objects
\* that have the three fields: every list that a call handed over to the
\* cache, every list in a cache file and every list a paragraph was
\* annotated with is such a list.
C13_SchemaValidation ==
    /\ \A i \in 1..Len(events) :
          events[i].accepted # <<>> => events[i].class = "valid"
    /\ \A key \in DOMAIN files :
          files[key].readable => ListValid(files[key].val)
    /\ \A j \in 1..Len(segs) : ListValid(segs[j].translations)

\* A paragraph with a word is at hand: translate_paragraph_with_mistral is
\* about to look its prompt up in the cache.
AtLookup ==
    /\ pc = "parts"
    /\ idx <= Len(parts)
    /\ ~IsTagOrEmpty(part)
    /\ finditer(part, 1) # <<>>

\* C15: when the file of the key is missing or cannot be loaded, the lookup
\* gives a miss and nothing is raised: the retry loop starts at its first
\* attempt, the cache is left as it is, and the step that follows is a call
\* of the Selector.
C15_ReadFailureIsMiss ==
    [][/\ (AtLookup /\ (cache_key \notin DOMAIN files \/ ~files[cache_key].readable)) =>
              /\ pc' = "attempt"
              /\ attempt' = 0
              /\ files' = files
              /\ segs' = segs
       /\ pc = "attempt" =>
              /\ Len(events') = Len(events) + 1
              /\ IsCall(events'[Len(events')])]_vars

\* The first attempt for a paragraph whose cache file cannot be loaded.
C15_Witness ==
    /\ pc = "attempt"
    /\ attempt = 0
    /\ events = <<>>
    /\ cache_key \in DOMAIN files
    /\ ~files[cache_key].readable

\* C16: when a call gives a list of the required schema and the write of it
\* fails, nothing is raised and no other call is made for the paragraph:
\* the paragraph is annotated with that list, the loop goes on with the
\* next part, and the cache has no list for the key.
C16_WriteFailureContained ==
    [][(/\ pc = "attempt"
        /\ Len(events') = Len(events) + 1
        /\ events'[Len(events')].class = "valid"
        /\ get_from_cache(files', cache_key) = <<>>) =>
            /\ pc' = "parts"
            /\ idx' = idx + 1
            /\ Len(segs') = Len(segs) + 1
            /\ LET sg == segs'[Len(segs')]
                   got == events'[Len(events')].accepted
               IN  /\ sg.src = "live"
                   /\ sg.translations = got
                   /\ StripSpans(sg.html) = part
                   /\ Len(Spans(sg.html, 1)) = Len(Spans(wrap_words_in_spans(part, got), 1))
                   /\ result_parts' = Append(result_parts, sg.html)
            /\ cache_key \notin stored']_vars

\* A paragraph annotated by its first call, whose list is not in the cache.
C16_Witness ==
    /\ pc = "parts"
    /\ Len(events) = 1
    /\ events[1].class = "valid"
    /\ segs # <<>>
    /\ LET sg == segs[Len(segs)]
       IN  /\ sg.src = "live"
           /\ Spans(sg.html, 1) # <<>>
           /\ get_from_cache(files, get_cache_key(Prompt(sg.text, items[sg.episode].title)))
                  = <<>>

\* C19: a cache file that holds a list keeps that list in every step of a
\* run: no step writes the file of a key that has a readable file.  Only
\* between two runs can the file be damaged, and then it holds no list.
C19_StoredOutputStable ==
    [][\A key \in DOMAIN files :
          files[key].readable =>
              /\ key \in DOMAIN files'
              /\ \/ files'[key] = files[key]
                 \/ (pc \in {"done", "crashed"} /\ ~files'[key].readable)]_vars

\* The second paragraph of a run is served from the list that the first
\* paragraph stored, and the file still holds that list.
C19_Witness ==
    /\ run = 1
    /\ Len(segs) = 2
    /\ segs[1].src = "live"
    /\ segs[2].src = "hit"
    /\ get_from_cache(files, get_cache_key(Prompt(segs[1].text, items[1].title)))
           = segs[1].translations

\* ------------------------------------------------------------------------
\* Properties of the candidate lists and of the identifiers
\* ------------------------------------------------------------------------
\* Whether w occurs in text as a run of consecutive characters.
IsSubstring(w, text) ==
    \E i \in 1..(Len(text) - Len(w) + 1) : SubSeq(text, i, i + Len(w) - 1) = w

\* C17: the list that a paragraph is annotated with, and every list that a
\* call hands to the cache, has at most max(1, n \div 3) candidates, n being
\* the number of word tokens of the paragraph, and the word of each
\* candidate occurs in the paragraph.
C17_TargetCountBound ==
    /\ \A j \in 1..Len(segs) :
          LET sg == segs[j]
              n == Len(TokenWords(sg.text))
              target == IF n \div 3 > 1 THEN n \div 3 ELSE 1
          IN  /\ target = num_difficult_words(sg.text)
              /\ Len(sg.translations) <= target
              /\ Len(sg.obtained) <= target
              /\ \A i \in 1..Len(sg.translations) :
                    IsSubstring(sg.translations[i].word, sg.text)
    /\ (pc \in {"attempt", "sleep"}) =>
          \A i \in 1..Len(events) :
              Len(events[i].accepted) <= num_difficult_words(part)

\* C18: after an episode, the word map that translate_words_with_mistral
\* returns has as many entries as the markup it returns has spans: a
\* candidate that wraps no occurrence adds no entry.
C18_SurplusCandidatesDropped ==
    \A e \in 1..Len(returned) :
        Cardinality(DOMAIN returned[e].all_word_translations)
            = Len(Spans(returned[e].final_html, 1))

\* The paragraphs of episode e handled so far in this run, in order.
EpisodeSegs(e) == SelectSeq(segs, LAMBDA sg : sg.episode = e)

RECURSIVE AllocatedBefore(_, _)
\* The number of candidates of the paragraphs before position j of es.
AllocatedBefore(es, j) ==
    IF j <= 1 THEN 0
    ELSE AllocatedBefore(es, j - 1) + Len(es[j - 1].translations)

\* C20: in an episode the sequence numbers are allocated from 0 on, one
\* after the other, in the order of the paragraphs and, in a paragraph, of
\* its list: the identifiers of the word map are exactly l<id>_w0 ..
\* l<id>_w<total-1>, the i-th candidate of the j-th paragraph has the
\* number that follows those of all the candidates before it, and every
\* rewritten span of a paragraph has a number of that paragraph, above all
\* the numbers of the paragraphs before it.
C20_SequenceNumbersIncrease ==
    \A e \in 1..Len(items) :
        (e <= Len(returned) \/ (e = number /\ pc \in {"parts", "attempt", "sleep", "crashed"})) =>
            LET es == EpisodeSegs(e)
                eid == IF items[e].lesson # "" THEN items[e].lesson ELSE ToString(e)
                map == IF e <= Len(returned) THEN returned[e].all_word_translations
                       ELSE all_word_translations
                total == AllocatedBefore(es, Len(es) + 1)
            IN  /\ DOMAIN map = {NewId(eid, n) : n \in 0..(total - 1)}
                /\ (e > Len(returned)) => word_id_counter = total
                /\ \A j \in 1..Len(es) :
                      /\ \A i \in 1..Len(es[j].translations) :
                            map[NewId(eid, AllocatedBefore(es, j) + i - 1)]
                                = Entry(es[j].translations[i])
                      /\ LET sp == Spans(es[j].html, 1)
                         IN  \A k \in 1..Len(sp) :
                                 ~sp[k].id.raw =>
                                     /\ sp[k].id.ep = eid
                                     /\ sp[k].id.n >= AllocatedBefore(es, j)
                                     /\ sp[k].id.n < AllocatedBefore(es, j + 1)

\* An episode of two paragraphs with two candidates each: the spans of the
\* second paragraph have the numbers 2 and 3.
C20_Witness ==
    /\ Len(returned) = 1
    /\ LET es == EpisodeSegs(1)
       IN  /\ Len(es) = 2
           /\ Len(es[1].translations) = 2
           /\ LET sp == Spans(es[2].html, 1)
              IN  /\ Len(sp) = 2
                  /\ sp[1].id = NewId(items[1].lesson, 2)
                  /\ sp[2].id = NewId(items[1].lesson, 3)

\* ------------------------------------------------------------------------
\* Properties of the markup and of the classification of the parts
\* ------------------------------------------------------------------------
\* Whether the character at position pos (1-based) of text is inside a
\* tag: a "<" at or before it has no ">" up to it.
InsideTag(text, pos) ==
    \E i \in 1..pos :
        /\ text[i] = "<"
        /\ \A j \in i..pos : text[j] # ">"

\* C21: in the markup returned for an episode, the text without the span
\* tags is the transcript, every span encloses a word token, and no span
\* starts inside a tag of the transcript.
C21_WrappingNeverAltersMarkup ==
    \A e \in 1..Len(returned) :
        LET html == returned[e].final_html
            text == StripSpans(html)
            sp == Spans(html, 1)
        IN  /\ text = items[e].manuscript
            /\ \A k \in 1..Len(sp) :
                  /\ sp[k].word # <<>>
                  /\ \A i \in 1..Len(sp[k].word) : IsWordChar(sp[k].word[i])
                  /\ ~InsideTag(text, sp[k].start + 1)

\* A part that is one of the delimiter tags of the split.
IsDelimiter(p) == p # <<>> /\ DelimiterEnd(p, 1) = Len(p) + 1

\* A part that is neither a delimiter tag nor without text.
IsProse(p) == ~IsDelimiter(p) /\ \E j \in 1..Len(p) : ~IsSpace(p[j])

\* C22: every part that is neither a delimiter tag nor without text is
\* handled as a paragraph (it goes to translate_paragraph_with_mistral),
\* a part that begins with "<" included: the paragraphs handled so far in
\* the episode are as many as such parts before the part at hand.
C22_SegmentClassification ==
    pc \in {"parts", "attempt", "sleep"} =>
        Len(EpisodeSegs(number)) = Count(SubSeq(parts, 1, idx - 1), IsProse)

\* C23: a step puts a list in a cache file only when it is a call whose
\* response passed the acceptance check, and the list is that non-empty
\* list; a paragraph without a word leaves the cache as it is, and when a
\* paragraph degrades the cache has no list for its key, so that the next
\* run calls for it again.
C23_CacheContent ==
    [][/\ \A key \in DOMAIN files' :
              (/\ files'[key].readable
               /\ (key \notin DOMAIN files \/ files[key] # files'[key])) =>
                  /\ pc = "attempt"
                  /\ key = cache_key
                  /\ files'[key].val # <<>>
                  /\ Len(events') = Len(events) + 1
                  /\ events'[Len(events')].accepted = files'[key].val
       /\ (Len(segs') = Len(segs) + 1 /\ segs'[Len(segs')].src = "nowords") =>
              files' = files
       /\ (Len(segs') = Len(segs) + 1 /\ segs'[Len(segs')].src = "degrade") =>
              get_from_cache(files', cache_key) = <<>>]_vars

====
